---------------------------- MODULE Spec2Model ----------------------------
(***************************************************************************)
(* Model of the book-catalog build: scripts/enrich.py (Open Library        *)
(* enrichment client) and scripts/build.py (build orchestrator).           *)
(*                                                                         *)
(* The pure functions of enrich.py come first, then the build run of       *)
(* build.py's main().                                                      *)
(***************************************************************************)
EXTENDS Integers, Sequences, FiniteSets, TLC

VARIABLES
    subjects,       \* clean_genres: its argument
    cleaned,        \* clean_genres: its return value
    isbn_list,      \* select_best_isbn: its argument
    best_isbn,      \* select_best_isbn: its return value
    query,          \* enrich_book: its arguments [title, author]
    response,       \* enrich_book: the response of search.json
    fuzzy,          \* enrich_book: what the call returned
    fpc             \* position of the single call: "input" | "returned"

pure_vars == <<subjects, cleaned, isbn_list, best_isbn, query, response, fuzzy, fpc>>

VARIABLES
    books,            \* main: the book list parsed from the CSV
    disk,             \* the cache file cache/enrichment_cache.json, as the dict
                      \* load_cache reads from it ({} if the file is missing,
                      \* empty or cut off)
    loaded,           \* main: the cache as load_cache returned it in this run
    cache,            \* main: the cache in memory
    to_enrich,        \* main: the books needing enrichment
    new_enrichments,  \* enrich_books: results, then main: new_enrichments
    next_i,           \* enrich_books: position in to_enrich of the next book of the loop (i + 1)
    calls,            \* the strategies run in this run: [book, strategy, error]
    net,              \* the responses consumed for the last book enriched
    warned,           \* main: the error-rate warning was printed in this run
    output,           \* the books.json written by this run
    pc,               \* position of main
    run,              \* number of runs started; also the clock of fetched_at
    last_run          \* how the previous run ended: "none", "completed", "crashed",
                      \* "killed"

main_vars == <<books, disk, loaded, cache, to_enrich, new_enrichments, next_i, calls, net,
               warned, output, pc, run, last_run>>

vars == <<pure_vars, main_vars>>

---------------------------------------------------------------------------
(* Bounds of the model                                                     *)

MaxSubjects == 3    \* free entries of a subject list
MaxIsbns == 3       \* entries of an ISBN list
MaxCands == 3       \* candidates in a response of search.json (the code asks for 5)
MaxBooks == 2       \* books in the CSV
MaxRuns == 2        \* runs of the build

---------------------------------------------------------------------------
(* Python str and None                                                     *)
(*                                                                         *)
(* A Python str is a TLA+ string: Len(s) is len(s), s \o t is s + t and    *)
(* SubSeq(s, i, i) is the character s[i-1].  lower(), strip(), title() and *)
(* isdigit() are computed character by character.                          *)

\* Python's None.  It stands for no str: no string of the model equals it.
None == "<None>"

\* s[i-1]
Char(s, i) == SubSeq(s, i, i)

\* s[i-1:]
From(s, i) == SubSeq(s, i, Len(s))

ToLower ==
    "A" :> "a" @@ "B" :> "b" @@ "C" :> "c" @@ "D" :> "d" @@ "E" :> "e" @@ "F" :> "f" @@
    "G" :> "g" @@ "H" :> "h" @@ "I" :> "i" @@ "J" :> "j" @@ "K" :> "k" @@ "L" :> "l" @@
    "M" :> "m" @@ "N" :> "n" @@ "O" :> "o" @@ "P" :> "p" @@ "Q" :> "q" @@ "R" :> "r" @@
    "S" :> "s" @@ "T" :> "t" @@ "U" :> "u" @@ "V" :> "v" @@ "W" :> "w" @@ "X" :> "x" @@
    "Y" :> "y" @@ "Z" :> "z"

ToUpper ==
    "a" :> "A" @@ "b" :> "B" @@ "c" :> "C" @@ "d" :> "D" @@ "e" :> "E" @@ "f" :> "F" @@
    "g" :> "G" @@ "h" :> "H" @@ "i" :> "I" @@ "j" :> "J" @@ "k" :> "K" @@ "l" :> "L" @@
    "m" :> "M" @@ "n" :> "N" @@ "o" :> "O" @@ "p" :> "P" @@ "q" :> "Q" @@ "r" :> "R" @@
    "s" :> "S" @@ "t" :> "T" @@ "u" :> "U" @@ "v" :> "V" @@ "w" :> "W" @@ "x" :> "X" @@
    "y" :> "Y" @@ "z" :> "Z"

DigitChars == {"0", "1", "2", "3", "4", "5", "6", "7", "8", "9"}
SpaceChars == {" ", "\t", "\n", "\r"}

IsUpperChar(c) == c \in DOMAIN ToLower
IsLowerChar(c) == c \in DOMAIN ToUpper
IsCasedChar(c) == IsUpperChar(c) \/ IsLowerChar(c)
LowerChar(c) == IF IsUpperChar(c) THEN ToLower[c] ELSE c
UpperChar(c) == IF IsLowerChar(c) THEN ToUpper[c] ELSE c

\* str.lower()
RECURSIVE Lower(_)
Lower(s) == IF s = "" THEN "" ELSE LowerChar(Char(s, 1)) \o Lower(From(s, 2))

\* str.lstrip(), str.rstrip(), str.strip(): whitespace removed at the ends
RECURSIVE LStrip(_)
LStrip(s) ==
    IF s /= "" /\ Char(s, 1) \in SpaceChars THEN LStrip(From(s, 2)) ELSE s

RECURSIVE RStrip(_)
RStrip(s) ==
    IF s /= "" /\ Char(s, Len(s)) \in SpaceChars
    THEN RStrip(SubSeq(s, 1, Len(s) - 1)) ELSE s

Strip(s) == RStrip(LStrip(s))

\* str.title(): a cased character is upper-cased when it follows an uncased
\* one (or starts the string) and lower-cased otherwise.
RECURSIVE TitleFrom(_, _)
TitleFrom(s, i) ==
    IF i > Len(s) THEN ""
    ELSE (IF i = 1 \/ ~IsCasedChar(Char(s, i - 1))
          THEN UpperChar(Char(s, i)) ELSE LowerChar(Char(s, i)))
         \o TitleFrom(s, i + 1)

Title(s) == TitleFrom(s, 1)

\* str.isdigit(): non-empty and every character a digit
IsDigit(s) == Len(s) > 0 /\ \A i \in 1..Len(s) : Char(s, i) \in DigitChars

\* any(c.isdigit() for c in s)
HasDigit(s) == \E i \in 1..Len(s) : Char(s, i) \in DigitChars

\* s.startswith(p)
StartsWith(s, p) == Len(s) >= Len(p) /\ SubSeq(s, 1, Len(p)) = p

\* list[:n]
Take(l, n) == SubSeq(l, 1, IF Len(l) < n THEN Len(l) ELSE n)

\* Lists of length at most n over the set U.
BoundedSeq(U, n) == UNION {[1..k -> U] : k \in 0..n}

---------------------------------------------------------------------------
(* enrich.py: constants                                                    *)

IGNORE_SUBJECTS == {
    "accessible book", "protected daisy", "in library", "overdrive",
    "fiction", "nonfiction", "general", "literary", "literature",
    "open library staff picks", "lending library" }

SUBJECT_MAP == {
    <<"sci-fi", "Science Fiction">>,
    <<"science fiction", "Science Fiction">>,
    <<"self-help", "Self-Help">>,
    <<"selfhelp", "Self-Help">>,
    <<"self help", "Self-Help">>,
    <<"biography", "Biography">>,
    <<"biographies", "Biography">>,
    <<"memoir", "Memoir">>,
    <<"memoirs", "Memoir">>,
    <<"history", "History">>,
    <<"historical", "History">>,
    <<"psychology", "Psychology">>,
    <<"philosophy", "Philosophy">>,
    <<"economics", "Economics">>,
    <<"politics", "Politics">>,
    <<"political science", "Politics">> }

\* SUBJECT_MAP.get(key, default)
SubjectMapGet(key, default) ==
    IF \E e \in SUBJECT_MAP : e[1] = key
    THEN (CHOOSE e \in SUBJECT_MAP : e[1] = key)[2]
    ELSE default

MaxSubjectLen == 50
MaxGenres == 5

---------------------------------------------------------------------------
(* enrich.py: select_best_isbn                                             *)

IsIsbn13(i) == Len(i) = 13 /\ IsDigit(i)
IsIsbn10(i) == Len(i) = 10

select_best_isbn_any_13(l) ==
    LET isbn_13 == SelectSeq(l, LAMBDA i : Len(i) = 13)
        isbn_10 == SelectSeq(l, IsIsbn10)
    IN  IF l = <<>> THEN None
        ELSE IF isbn_13 /= <<>> THEN isbn_13[1]
        ELSE IF isbn_10 /= <<>> THEN isbn_10[1]
        ELSE None

select_best_isbn(l) ==
    LET isbn_13 == SelectSeq(l, IsIsbn13)
        isbn_10 == SelectSeq(l, IsIsbn10)
    IN  IF l = <<>> THEN None
        ELSE IF isbn_13 /= <<>> THEN isbn_13[1]
        ELSE IF isbn_10 /= <<>> THEN isbn_10[1]
        ELSE None

---------------------------------------------------------------------------
(* enrich.py: clean_genres                                                 *)

\* The canonical name of a subject that is not skipped.
Canonical(subject) == SubjectMapGet(Strip(Lower(subject)), Title(subject))

\* The three `continue` tests of the loop body.
Skipped(subject) ==
    \/ Strip(Lower(subject)) \in IGNORE_SUBJECTS
    \/ HasDigit(subject)
    \/ Len(subject) > MaxSubjectLen

\* The loop of clean_genres from position k on, with the locals cleaned, seen.
RECURSIVE CleanLoop(_, _, _, _)
CleanLoop(subs, k, cl, seen) ==
    IF k > Len(subs) THEN cl
    ELSE LET subject == subs[k]
             canonical == Canonical(subject)
         IN  IF Skipped(subject) THEN CleanLoop(subs, k + 1, cl, seen)
             ELSE IF Lower(canonical) \notin seen
                  THEN CleanLoop(subs, k + 1, Append(cl, canonical),
                                 seen \cup {Lower(canonical)})
                  ELSE CleanLoop(subs, k + 1, cl, seen)

clean_genres_uncapped(subs) == CleanLoop(subs, 1, <<>>, {})

clean_genres(subs) == Take(CleanLoop(subs, 1, <<>>, {}), MaxGenres)

---------------------------------------------------------------------------
(* difflib.SequenceMatcher(None, a, b).ratio(), as compute_match_score     *)
(* uses it (no junk test; strings far below the 200 characters at which    *)
(* difflib's automatic junk heuristic starts).                             *)

\* Length of the longest common prefix of a[i..ahi] and b[j..bhi].
RECURSIVE CommonPrefix(_, _, _, _, _, _)
CommonPrefix(a, b, i, j, ahi, bhi) ==
    IF i > ahi \/ j > bhi \/ Char(a, i) /= Char(b, j) THEN 0
    ELSE 1 + CommonPrefix(a, b, i + 1, j + 1, ahi, bhi)

\* find_longest_match: the longest block a[i..i+k-1] = b[j..j+k-1] within
\* a[alo..ahi], b[blo..bhi]; of the longest ones the one starting earliest
\* in a, and of those the one starting earliest in b.  k = 0 if none.
Better(m, n) ==
    \/ m[3] > n[3]
    \/ m[3] = n[3] /\ m[1] < n[1]
    \/ m[3] = n[3] /\ m[1] = n[1] /\ m[2] <= n[2]

BestOf(found, alo, blo) ==
    IF found = {} THEN <<alo, blo, 0>>
    ELSE CHOOSE m \in found : \A n \in found : Better(m, n)

LongestMatch(a, b, alo, ahi, blo, bhi) ==
    BestOf({m \in {<<i, j, CommonPrefix(a, b, i, j, ahi, bhi)>> :
                      i \in alo..ahi, j \in blo..bhi} : m[3] > 0},
           alo, blo)

\* get_matching_blocks: the total size of the matching blocks, found by
\* taking the longest block and recursing to its left and to its right.
RECURSIVE MatchedChars(_, _, _, _, _, _)
RECURSIVE MatchedAround(_, _, _, _, _, _, _)
MatchedAround(a, b, alo, ahi, blo, bhi, m) ==
    IF m[3] = 0 THEN 0
    ELSE m[3] + MatchedChars(a, b, alo, m[1] - 1, blo, m[2] - 1)
              + MatchedChars(a, b, m[1] + m[3], ahi, m[2] + m[3], bhi)

MatchedChars(a, b, alo, ahi, blo, bhi) ==
    MatchedAround(a, b, alo, ahi, blo, bhi, LongestMatch(a, b, alo, ahi, blo, bhi))

\* ratio(): 2.0 * matches / (len(a) + len(b)), and 1.0 for two empty strings.
\* A ratio and a score are exact fractions [n, d], d > 0.
Ratio(a, b) ==
    IF Len(a) + Len(b) = 0 THEN [n |-> 1, d |-> 1]
    ELSE [n |-> 2 * MatchedChars(a, b, 1, Len(a), 1, Len(b)), d |-> Len(a) + Len(b)]

\* x > y, x >= p/q for fractions
FracGT(x, y) == x.n * y.d > y.n * x.d
FracGE(x, p, q) == x.n * q >= p * x.d
FracEQ(x, y) == x.n * y.d = y.n * x.d

---------------------------------------------------------------------------
(* enrich.py: dict access, compute_match_score                             *)

\* dict.get(key, default); `key in dict`
Get(dict, key, default) == IF key \in DOMAIN dict THEN dict[key] ELSE default
Has(dict, key) == key \in DOMAIN dict

\* {}
EmptyDict == [k \in {} |-> None]

\* sep.join(list)
RECURSIVE Join(_, _)
Join(sep, l) ==
    IF l = <<>> THEN ""
    ELSE IF Len(l) = 1 THEN l[1]
    ELSE l[1] \o sep \o Join(sep, Tail(l))

\* title_score * 0.6 + author_score * 0.4.  The code computes in IEEE
\* doubles; for the titles and authors of the inputs below the double
\* results compare with each other and with 0.9, 0.7, 0.5 as these exact
\* fractions do.
Weighted(title_score, author_score) ==
    [n |-> 6 * title_score.n * author_score.d + 4 * author_score.n * title_score.d,
     d |-> 10 * title_score.d * author_score.d]

compute_match_score(query_title, query_author, doc) ==
    LET title_score == Ratio(Lower(query_title), Lower(Get(doc, "title", "")))
        doc_authors == Lower(Join(" ", Get(doc, "author_name", <<>>)))
        author_score == Ratio(Lower(query_author), doc_authors)
    IN  Weighted(title_score, author_score)

---------------------------------------------------------------------------
(* enrich.py: the three resolution strategies                              *)
(*                                                                         *)
(* A dict is a record; an optional key is a field the record may lack.     *)
(* An HTTP response is [ok |-> FALSE, error |-> msg] when requests raises  *)
(* a RequestException (a transport failure or raise_for_status()), and     *)
(* [ok |-> TRUE, ...] with the decoded JSON otherwise.  A call returns     *)
(* [out |-> r, calls |-> c]: r is the dict returned, or [raised |-> e] for *)
(* an exception that leaves the function, and c lists the strategies that  *)
(* ran, in order.  An int is written as its decimal numeral.               *)

Truthy(x) == x /= None /\ x /= ""

Raised(e) == [raised |-> e]
IsRaised(out) == "raised" \in DOMAIN out

\* int(s) for a string of digits, as a decimal numeral
RECURSIVE IntOf(_)
IntOf(s) == IF Len(s) > 1 /\ Char(s, 1) = "0" THEN IntOf(From(s, 2)) ELSE s

\* re.search(r'\d{4}', s): the first four consecutive digits, or None
RECURSIVE SearchYear(_, _)
SearchYear(s, i) ==
    IF i + 3 > Len(s) THEN None
    ELSE IF IsDigit(SubSeq(s, i, i + 3)) THEN SubSeq(s, i, i + 3)
    ELSE SearchYear(s, i + 1)

\* year_published as both by-ISBN and by-work compute it from a date string
YearOf(date) ==
    IF ~Truthy(date) THEN None
    ELSE IF SearchYear(date, 1) = None THEN None
    ELSE IntOf(SearchYear(date, 1))

\* s.split('/')[-1]
RECURSIVE LastSegment(_)
LastSegment(s) ==
    IF \E i \in 1..Len(s) : Char(s, i) = "/"
    THEN LastSegment(From(s, 1 + CHOOSE i \in 1..Len(s) : Char(s, i) = "/"))
    ELSE s

\* s.strip('/')
RECURSIVE StripSlashes(_)
StripSlashes(s) ==
    IF s /= "" /\ Char(s, 1) = "/" THEN StripSlashes(From(s, 2))
    ELSE IF s /= "" /\ Char(s, Len(s)) = "/" THEN StripSlashes(SubSeq(s, 1, Len(s) - 1))
    ELSE s

\* [a.get('name', '') for a in authors]
RECURSIVE AuthorNames(_)
AuthorNames(l) ==
    IF l = <<>> THEN <<>> ELSE <<Get(Head(l), "name", "")>> \o AuthorNames(Tail(l))

\* [s.get('name', s) ... for s in book_data['subjects']] (each s a dict)
RECURSIVE SubjectNames(_)
SubjectNames(l) ==
    IF l = <<>> THEN <<>>
    ELSE <<Get(Head(l), "name", Head(l))>> \o SubjectNames(Tail(l))

\* The dict both error returns of enrich_book build.
ErrorRecord(error, now) ==
    [official_title |-> None,
     official_author |-> None,
     isbn |-> None,
     year_published |-> None,
     subjects |-> <<>>,
     open_library_work_key |-> None,
     open_library_edition_key |-> None,
     match_confidence |-> "none",
     error |-> error,
     fetched_at |-> now]

\* The loop "for doc in data['docs']" from position k on.  best.match is the
\* position of best_match in docs, 0 for None; best.score is best_score.
\* "if score > best_score:" for the doc at position k
Replace(best, k, score) ==
    IF FracGT(score, best.score) THEN [match |-> k, score |-> score] ELSE best

RECURSIVE ScoreLoop(_, _, _, _, _)
ScoreLoop(title, author, docs, k, best) ==
    IF k > Len(docs) THEN best
    ELSE ScoreLoop(title, author, docs, k + 1,
                   Replace(best, k, compute_match_score(title, author, docs[k])))

\* "Determine confidence"
Confidence(best_score) ==
    IF FracGE(best_score, 9, 10) THEN "high"
    ELSE IF FracGE(best_score, 7, 10) THEN "medium"
    ELSE IF FracGE(best_score, 5, 10) THEN "low"
    ELSE "none"

\* The dict enrich_book returns for best_match with best_score, and the
\* AttributeError of best_match.get when best_match is None.
FoundRecord(best_match, author_names, best_score, now) ==
    [official_title |-> Get(best_match, "title", None),
     official_author |->
         IF author_names /= <<>> THEN Join(", ", author_names) ELSE None,
     isbn |-> select_best_isbn(Get(best_match, "isbn", <<>>)),
     year_published |-> Get(best_match, "first_publish_year", None),
     subjects |-> Take(Get(best_match, "subject", <<>>), 10),
     open_library_work_key |-> Get(best_match, "key", None),
     open_library_edition_key |-> Get(best_match, "edition_key", <<None>>)[1],
     match_confidence |-> Confidence(best_score),
     fetched_at |-> now]

AfterLoop(docs, best, now) ==
    IF best.match = 0
    THEN Raised("AttributeError")
    ELSE FoundRecord(docs[best.match], Get(docs[best.match], "author_name", <<>>),
                     best.score, now)

\* enrich_book(title, author), given the response of search.json
enrich_book(title, author, search, now) ==
    [out |->
        IF ~search.ok
        THEN ErrorRecord("API error: " \o search.error, now)
        ELSE IF search.numFound = 0
        THEN ErrorRecord("No results found", now)
        ELSE AfterLoop(search.docs,
                       ScoreLoop(title, author, search.docs, 1,
                                 [match |-> 0, score |-> [n |-> 0, d |-> 1]]),
                       now),
     calls |-> <<"enrich_book">>]

\* A fallback that gives up with an error record instead of searching
Fallback_error_record(strategy, title, author, search, now) ==
    [out |-> ErrorRecord("API error: no fallback", now),
     calls |-> <<strategy, "enrich_book">>]

\* The result r of enrich_book, called from inside a strategy: the same
\* outcome, with the strategy first in the list of lookups.
CalledFrom(strategy, r) == [out |-> r.out, calls |-> <<strategy>> \o r.calls]

\* What a strategy returns when it falls back to enrich_book.
Fallback(strategy, title, author, search, now) ==
    CalledFrom(strategy, enrich_book(title, author, search, now))

\* enrich_by_isbn with the ISBN taken from the identifiers of the source
\* record instead of the argument
enrich_by_isbn_source_isbn(isbn, title, author, resp, search, now) ==
    LET isbn_key == "ISBN:" \o isbn
        book_data == resp.data[isbn_key]
        identifiers == Get(book_data, "identifiers", EmptyDict)
    IN  IF ~resp.ok \/ isbn_key \notin DOMAIN resp.data
        THEN Fallback("enrich_by_isbn", title, author, search, now)
        ELSE [out |->
                 [official_title |-> Get(book_data, "title", None),
                  official_author |-> None,
                  isbn |-> Get(identifiers, "isbn_13", <<None>>)[1],
                  year_published |-> YearOf(Get(book_data, "publish_date", None)),
                  subjects |-> <<>>,
                  open_library_work_key |-> None,
                  open_library_edition_key |-> None,
                  match_confidence |-> "isbn",
                  fetched_at |-> now],
              calls |-> <<"enrich_by_isbn">>]

\* enrich_by_isbn(isbn, title, author), given the response of api/books and,
\* for the fallback, that of search.json
enrich_by_isbn(isbn, title, author, resp, search, now) ==
    LET isbn_key == "ISBN:" \o isbn
        book_data == resp.data[isbn_key]
        authors == Get(book_data, "authors", <<>>)
        works == Get(book_data, "works", <<>>)
    IN  IF ~resp.ok \/ isbn_key \notin DOMAIN resp.data
        THEN Fallback("enrich_by_isbn", title, author, search, now)
        ELSE [out |->
                 [official_title |-> Get(book_data, "title", None),
                  official_author |->
                      IF authors /= <<>> THEN Join(", ", AuthorNames(authors)) ELSE None,
                  isbn |-> isbn,
                  year_published |-> YearOf(Get(book_data, "publish_date", None)),
                  subjects |-> Take(SubjectNames(Get(book_data, "subjects", <<>>)), 10),
                  open_library_work_key |->
                      IF works /= <<>> THEN Get(works[1], "key", None) ELSE None,
                  open_library_edition_key |->
                      IF Has(book_data, "key") THEN LastSegment(book_data.key) ELSE None,
                  match_confidence |-> "isbn",
                  fetched_at |-> now],
              calls |-> <<"enrich_by_isbn">>]

\* The loop "for ed in editions" from position k on: [isbn, edition_key].
RECURSIVE EditionLoop(_, _, _)
EditionLoop(editions, k, edition_key) ==
    IF k > Len(editions) THEN [isbn |-> None, edition_key |-> edition_key]
    ELSE LET ed == editions[k]
             isbns == Get(ed, "isbn_13", <<>>) \o Get(ed, "isbn_10", <<>>)
         IN  IF isbns /= <<>>
             THEN [isbn |-> isbns[1], edition_key |-> LastSegment(Get(ed, "key", ""))]
             ELSE EditionLoop(editions, k + 1, LastSegment(Get(ed, "key", "")))

\* "Normalize: strip /works/ prefix if present"
WorkKey(work_id) ==
    IF StartsWith(StripSlashes(work_id), "works/")
    THEN StripSlashes(work_id) ELSE "works/" \o work_id

\* enrich_by_work(work_id, title, author), given the responses of the work
\* and editions requests and, for the fallback, that of search.json
enrich_by_work(work_id, title, author, resp, search, now) ==
    LET work_key == WorkKey(work_id)
        found == EditionLoop(Get(resp.editions, "entries", <<>>), 1, None)
    IN  IF ~resp.ok \/ ~resp.editions_ok
        THEN Fallback("enrich_by_work", title, author, search, now)
        ELSE [out |->
                 [official_title |-> Get(resp.work, "title", None),
                  official_author |-> None,
                  isbn |-> found.isbn,
                  year_published |-> YearOf(Get(resp.work, "first_publish_date", None)),
                  subjects |-> Take(Get(resp.work, "subjects", <<>>), 10),
                  open_library_work_key |-> "/" \o work_key,
                  open_library_edition_key |-> found.edition_key,
                  match_confidence |-> "work_override",
                  fetched_at |-> now],
              calls |-> <<"enrich_by_work">>]

---------------------------------------------------------------------------
(* enrich.py: make_cache_key; build.py: the steps of main                  *)

make_cache_key(title, author) == Strip(Lower(title)) \o "|" \o Strip(Lower(author))

\* dict[key] = value
Put(dict, key, value) ==
    [k \in DOMAIN dict \cup {key} |-> IF k = key THEN value ELSE dict[k]]

\* dict.update(other)
Update(dict, other) ==
    [k \in DOMAIN dict \cup DOMAIN other |->
        IF k \in DOMAIN other THEN other[k] ELSE dict[k]]

\* Step 4 of main for one book, without the test of olid_work_override
NeedsRefresh_isbn_only(book, c) ==
    LET cache_key == make_cache_key(book.title, book.author)
    IN  IF cache_key \notin DOMAIN c THEN TRUE
        ELSE book.isbn_override /= Get(c[cache_key], "isbn_override_used", None)

\* Step 4 of main, for one book: "Need enrichment if ..."
NeedsRefresh(book, c) ==
    LET cache_key == make_cache_key(book.title, book.author)
        current_isbn_override == book.isbn_override
        current_olid_work_override == book.olid_work_override
        cached_isbn_override == Get(c[cache_key], "isbn_override_used", None)
        cached_olid_work_override == Get(c[cache_key], "olid_work_override_used", None)
    IN  IF cache_key \notin DOMAIN c THEN TRUE
        ELSE IF current_isbn_override /= cached_isbn_override THEN TRUE
        ELSE IF current_olid_work_override /= cached_olid_work_override THEN TRUE
        ELSE FALSE

\* Step 4 of main: to_enrich
SelectToEnrich(bs, c) == SelectSeq(bs, LAMBDA book : NeedsRefresh(book, c))

\* "Store overrides in cache for change detection": the loop from position k
RECURSIVE AnnotateFrom(_, _, _)
AnnotateFrom(ne, bs, k) ==
    IF k > Len(bs) THEN ne
    ELSE LET book == bs[k]
             cache_key == make_cache_key(book.title, book.author)
         IN  IF cache_key \in DOMAIN ne
             THEN AnnotateFrom(
                      Put(ne, cache_key,
                          Put(Put(ne[cache_key], "isbn_override_used", book.isbn_override),
                              "olid_work_override_used", book.olid_work_override)),
                      bs, k + 1)
             ELSE AnnotateFrom(ne, bs, k + 1)

\* cache.update(new_enrichments)
MergeIntoCache(c, ne) == Update(c, ne)

\* "Check error rate": error_rate > 0.5
ErrorRateHigh(ne) ==
    LET errors == Cardinality({k \in DOMAIN ne : Has(ne[k], "error")})
    IN  DOMAIN ne /= {} /\ 2 * errors > Cardinality(DOMAIN ne)

\* generate_id: the first 8 hex digits of a SHA-256, written as the hashed text
generate_id(book) == "sha256:" \o book.title \o "|" \o book.author

make_cover_url(isbn) ==
    IF Truthy(isbn)
    THEN "https://covers.openlibrary.org/b/isbn/" \o isbn \o "-M.jpg" ELSE None

make_ol_url(enrichment) ==
    LET work_key == Get(enrichment, "open_library_work_key", None)
    IN  IF Truthy(work_key) THEN "https://openlibrary.org" \o work_key ELSE None

make_search_text(title, author, genres) ==
    Lower(Join(" ", <<title, author>> \o genres))

\* x or y
Or(x, y) == IF Truthy(x) THEN x ELSE y

\* The book_entry with the ISBN of the enrichment taking precedence over
\* isbn_override
BookEntry_enrichment_isbn_first(book, c) ==
    LET cache_key == make_cache_key(book.title, book.author)
        enrichment == Get(c, cache_key, EmptyDict)
        isbn == Or(Get(enrichment, "isbn", None), book.isbn_override)
        display_title == Or(Get(enrichment, "official_title", None), book.title)
        display_author == Or(Get(enrichment, "official_author", None), book.author)
        genres == clean_genres(Get(enrichment, "subjects", <<>>))
    IN  [id |-> generate_id(book),
         title |-> display_title,
         author |-> display_author,
         user_title |-> book.title,
         user_author |-> book.author,
         isbn |-> isbn,
         year_published |-> Get(enrichment, "year_published", None),
         genres |-> genres,
         geo_region |-> book.geo_region,
         sort_year |-> book.sort_year,
         sort_basis |-> book.sort_basis,
         read_by_colin |-> book.read_by_colin,
         read_by_kaitlyn |-> book.read_by_kaitlyn,
         cover_url |-> make_cover_url(isbn),
         open_library_url |-> make_ol_url(enrichment),
         match_confidence |-> Get(enrichment, "match_confidence", "none"),
         search_text |-> make_search_text(display_title, display_author, genres)]

\* The book_entry build_books_json makes of one book.
BookEntry(book, c) ==
    LET cache_key == make_cache_key(book.title, book.author)
        enrichment == Get(c, cache_key, EmptyDict)
        isbn == Or(book.isbn_override, Get(enrichment, "isbn", None))
        display_title == Or(Get(enrichment, "official_title", None), book.title)
        display_author == Or(Get(enrichment, "official_author", None), book.author)
        genres == clean_genres(Get(enrichment, "subjects", <<>>))
    IN  [id |-> generate_id(book),
         title |-> display_title,
         author |-> display_author,
         user_title |-> book.title,
         user_author |-> book.author,
         isbn |-> isbn,
         year_published |-> Get(enrichment, "year_published", None),
         genres |-> genres,
         geo_region |-> book.geo_region,
         sort_year |-> book.sort_year,
         sort_basis |-> book.sort_basis,
         read_by_colin |-> book.read_by_colin,
         read_by_kaitlyn |-> book.read_by_kaitlyn,
         cover_url |-> make_cover_url(isbn),
         open_library_url |-> make_ol_url(enrichment),
         match_confidence |-> Get(enrichment, "match_confidence", "none"),
         search_text |-> make_search_text(display_title, display_author, genres)]

build_books_json(bs, c, now) ==
    [generated_at |-> now,
     count |-> Len(bs),
     books |-> [k \in 1..Len(bs) |-> BookEntry(bs[k], c)]]

---------------------------------------------------------------------------
(* The inputs of a build: the CSV, the cache file, the HTTP responses      *)

\* The candidates search.json may return.
DocDune ==
    [key |-> "/works/OL893415W", title |-> "Dune",
     author_name |-> <<"Frank Herbert">>, first_publish_year |-> "1965",
     isbn |-> <<"978-0441-0135", "0441013597", "9780441013593">>,
     subject |-> <<"Fiction", "Sci-Fi", "Science Fiction, 1950-1999", "Adventure">>,
     edition_key |-> <<"OL7525634M">>]
DocUpper == [key |-> "/works/OL2W", title |-> "DUNE", author_name |-> <<"frank herbert">>]
DocDot == [key |-> "/works/OL3W", title |-> "Dune.", author_name |-> <<"Frank Herbert">>]
DocMessiah ==
    [key |-> "/works/OL4W", title |-> "Dune Messiah",
     author_name |-> <<"Frank Herbert">>, isbn |-> <<"0441172695">>]
DocHalf == [key |-> "/works/OL5W", title |-> "Dune Messiah", author_name |-> <<"Frankzz">>]
DocNoTitle ==
    [key |-> "/works/OL6W", author_name |-> <<"Frank Herbert", "Brian Herbert">>]
DocEmma == [key |-> "/works/OL7W", title |-> "Emma", author_name |-> <<"Jane Austen">>]
DocXyz == [key |-> "/works/OL8W", title |-> "Xyz"]

DocUniverse ==
    {DocDune, DocUpper, DocDot, DocMessiah, DocHalf, DocNoTitle, DocEmma, DocXyz}

SearchFailed == [ok |-> FALSE, error |-> "connection timed out"]
SearchFound(docs) == [ok |-> TRUE, numFound |-> Len(docs), docs |-> docs]

SearchResponses(n) == {SearchFailed} \cup {SearchFound(d) : d \in BoundedSeq(DocUniverse, n)}

Queries == {[title |-> "Dune", author |-> "Frank Herbert"]}

NoQuery == [title |-> "", author |-> ""]
NoCall == [out |-> Raised("not called"), calls |-> <<>>]

Isbn1 == "9780441013593"
Olid1 == "OL893415W"

\* A book as parse_csv builds it: title and author stripped and non-empty,
\* an override stripped, and None when empty.
Book(title, author, isbn_override, olid_work_override) ==
    [title |-> title, author |-> author,
     isbn_override |-> isbn_override,
     olid_work_override |-> olid_work_override,
     geo_region |-> None, sort_year |-> None, sort_basis |-> None,
     read_by_colin |-> FALSE, read_by_kaitlyn |-> FALSE]

BookUniverse ==
    {Book("Dune", "Frank Herbert", io, wo) : io \in {None, Isbn1}, wo \in {None, Olid1}}
    \cup {Book("DUNE", "Frank Herbert", None, None),
          Book("Emma", "Frank Herbert", None, None)}

BookLists(n) == UNION {[1..k -> BookUniverse] : k \in 1..n}

\* Responses of api/books?bibkeys=ISBN:<isbn>&jscmd=data
BookDataFull ==
    [title |-> "Dune", authors |-> <<[name |-> "Frank Herbert"]>>,
     subjects |-> <<[name |-> "Science fiction"], [name |-> "Dune (Imaginary place)"]>>,
     works |-> <<[key |-> "/works/OL893415W"]>>,
     publish_date |-> "August 2, 2005", key |-> "/books/OL7525634M",
     identifiers |-> [isbn_10 |-> <<"0441013597">>, isbn_13 |-> <<"9780441013593">>]]
BookDataBare == [title |-> "Dune", publish_date |-> "n.d."]

IsbnFailed == [ok |-> FALSE, error |-> "503 Server Error"]
IsbnFound(isbn, book_data) == [ok |-> TRUE, data |-> ("ISBN:" \o isbn) :> book_data]
IsbnNotFound == [ok |-> TRUE, data |-> EmptyDict]

IsbnResponses(isbn) ==
    {IsbnFailed, IsbnNotFound, IsbnFound(isbn, BookDataFull), IsbnFound(isbn, BookDataBare)}

\* Responses of works/<id>.json and works/<id>/editions.json
WorkData ==
    [title |-> "Dune", first_publish_date |-> "1965",
     subjects |-> <<"Science Fiction", "Fiction">>]
EditionNoIsbn == [key |-> "/books/OL1M"]
EditionIsbn == [key |-> "/books/OL2M", isbn_10 |-> <<"0441013597">>]

WorkFailed == [ok |-> FALSE, error |-> "404 Not Found"]
WorkFound(editions_ok, entries) ==
    [ok |-> TRUE, work |-> WorkData, editions_ok |-> editions_ok,
     editions |-> [entries |-> entries]]

WorkResponses ==
    {WorkFailed, WorkFound(FALSE, <<>>), WorkFound(TRUE, <<EditionNoIsbn>>),
     WorkFound(TRUE, <<EditionNoIsbn, EditionIsbn>>)}

\* The responses of search.json in a build.
BuildSearchResponses ==
    {SearchFailed, SearchFound(<<>>), SearchFound(<<DocXyz>>),
     SearchFound(<<DocMessiah, DocDune>>)}

\* A cached record with the snapshot of the overrides it was fetched under.
Snapshot(record, isbn_override, olid_work_override) ==
    Put(Put(record, "isbn_override_used", isbn_override),
        "olid_work_override_used", olid_work_override)

\* Records an earlier build left in the cache file: found ones, the error
\* record of a failed search, and a found one written by a version of the
\* code that stored no snapshot.
CachedRecords ==
    LET found == enrich_book("Dune", "Frank Herbert", SearchFound(<<DocDune>>), 0).out
        failed == enrich_book("Dune", "Frank Herbert", SearchFailed, 0).out
    IN  {Snapshot(found, None, None),
         Snapshot(failed, None, None),
         Snapshot(enrich_by_isbn(Isbn1, "Dune", "Frank Herbert",
                                 IsbnFound(Isbn1, BookDataFull), SearchFailed, 0).out,
                  Isbn1, None),
         Snapshot(enrich_by_work(Olid1, "Dune", "Frank Herbert",
                                 WorkFound(TRUE, <<EditionIsbn>>), SearchFailed, 0).out,
                  None, Olid1),
         found}

InitCaches ==
    {EmptyDict} \cup {"dune|frank herbert" :> r : r \in CachedRecords}

---------------------------------------------------------------------------
(* build.py: main, and enrich.py: enrich_books, as steps                   *)

NoOutput == [generated_at |-> 0, count |-> 0, books |-> <<>>]

MainIdle ==
    /\ books = <<>>
    /\ disk = EmptyDict
    /\ loaded = EmptyDict
    /\ cache = EmptyDict
    /\ to_enrich = <<>>
    /\ new_enrichments = EmptyDict
    /\ next_i = 1
    /\ calls = <<>>
    /\ net = EmptyDict
    /\ warned = FALSE
    /\ output = NoOutput
    /\ pc = "idle"
    /\ run = 0
    /\ last_run = "none"

PureIdle ==
    /\ subjects = <<>>
    /\ cleaned = <<>>
    /\ isbn_list = <<>>
    /\ best_isbn = None
    /\ query = NoQuery
    /\ response = SearchFailed
    /\ fuzzy = NoCall
    /\ fpc = "input"

Init ==
    /\ PureIdle
    /\ books \in BookLists(MaxBooks)
    /\ disk \in InitCaches
    /\ loaded = EmptyDict
    /\ cache = EmptyDict
    /\ to_enrich = <<>>
    /\ new_enrichments = EmptyDict
    /\ next_i = 1
    /\ calls = <<>>
    /\ net = EmptyDict
    /\ warned = FALSE
    /\ output = NoOutput
    /\ pc = "idle"
    /\ run = 0
    /\ last_run = "none"

\* main, steps 1 to 4: the CSV is fetched and parsed (the same book list as
\* before), the cache is loaded and the books needing enrichment are found;
\* then enrich_books starts, or step 5 is skipped.
StartRun ==
    /\ pc \in {"idle", "done", "crashed", "killed"}
    /\ run < MaxRuns
    /\ run' = run + 1
    /\ last_run' = (CASE pc = "done" -> "completed"
                      [] pc = "crashed" -> "crashed"
                      [] pc = "killed" -> "killed"
                      [] OTHER -> "none")
    /\ loaded' = disk
    /\ cache' = disk
    /\ to_enrich' = SelectToEnrich(books, disk)
    /\ new_enrichments' = EmptyDict
    /\ next_i' = 1
    /\ calls' = <<>>
    /\ net' = EmptyDict
    /\ warned' = FALSE
    /\ pc' = IF to_enrich' /= <<>> THEN "enriching" ELSE "cached"
    /\ UNCHANGED <<books, disk, output, pure_vars>>

\* The process is ended from outside (a signal, a power cut) at any point
\* after the cache was loaded: nothing more is done in this run.
Kill ==
    /\ pc \in {"enriching", "enriched", "merged", "writing", "saved", "cached"}
    /\ pc' = "killed"
    /\ UNCHANGED <<books, disk, loaded, cache, to_enrich, new_enrichments, next_i,
                   calls, net, warned, output, run, last_run, pure_vars>>

\* The end of one iteration of the loop of enrich_books: the strategy
\* returned r after consuming the response first and, if it fell back to
\* enrich_book, the response search of search.json.
Store(r, first, search) ==
    LET book == to_enrich[next_i]
        cache_key == make_cache_key(book.title, book.author)
        error == ~IsRaised(r.out) /\ Has(r.out, "error")
    IN  /\ calls' = calls \o [k \in 1..Len(r.calls) |->
                                 [book |-> next_i, strategy |-> r.calls[k],
                                  error |-> error]]
        /\ net' = IF Len(r.calls) > 1 THEN first @@ [search |-> search] ELSE first
        /\ IF IsRaised(r.out)
           THEN /\ pc' = "crashed"
                /\ UNCHANGED <<new_enrichments, next_i>>
           ELSE /\ new_enrichments' = Put(new_enrichments, cache_key, r.out)
                /\ next_i' = next_i + 1
                /\ pc' = IF next_i = Len(to_enrich) THEN "enriched" ELSE "enriching"
        /\ UNCHANGED <<books, disk, loaded, cache, to_enrich, warned, output, run,
                       last_run, pure_vars>>

\* enrich_books, one book: "if isbn_override:"
EnrichByIsbn ==
    /\ pc = "enriching"
    /\ Truthy(to_enrich[next_i].isbn_override)
    /\ LET book == to_enrich[next_i]
       IN  \E resp \in IsbnResponses(book.isbn_override), search \in BuildSearchResponses :
              Store(enrich_by_isbn(book.isbn_override, book.title, book.author,
                                   resp, search, run),
                    [api_books |-> resp], search)

\* The branch of the work-id override taken whatever the ISBN override is
EnrichByWork_ignoring_isbn ==
    /\ pc = "enriching"
    /\ Truthy(to_enrich[next_i].olid_work_override)
    /\ LET book == to_enrich[next_i]
       IN  \E resp \in WorkResponses, search \in BuildSearchResponses :
              Store(enrich_by_work(book.olid_work_override, book.title, book.author,
                                   resp, search, run),
                    [works |-> resp], search)

\* enrich_books, one book: "elif olid_work_override:"
EnrichByWork ==
    /\ pc = "enriching"
    /\ ~Truthy(to_enrich[next_i].isbn_override)
    /\ Truthy(to_enrich[next_i].olid_work_override)
    /\ LET book == to_enrich[next_i]
       IN  \E resp \in WorkResponses, search \in BuildSearchResponses :
              Store(enrich_by_work(book.olid_work_override, book.title, book.author,
                                   resp, search, run),
                    [works |-> resp], search)

\* enrich_books, one book: "else:"
EnrichBySearch ==
    /\ pc = "enriching"
    /\ ~Truthy(to_enrich[next_i].isbn_override)
    /\ ~Truthy(to_enrich[next_i].olid_work_override)
    /\ LET book == to_enrich[next_i]
       IN  \E search \in BuildSearchResponses :
              Store(enrich_book(book.title, book.author, search, run),
                    [search |-> search], search)

\* main, step 5 after enrich_books returned: the snapshot of the overrides,
\* cache.update and the error-rate check.
MergeEnrichments ==
    /\ pc = "enriched"
    /\ LET annotated == AnnotateFrom(new_enrichments, to_enrich, 1)
       IN  /\ new_enrichments' = annotated
           /\ cache' = MergeIntoCache(cache, annotated)
           /\ warned' = ErrorRateHigh(annotated)
    /\ pc' = "merged"
    /\ UNCHANGED <<books, disk, loaded, to_enrich, next_i, calls, net, output, run,
                   last_run, pure_vars>>

\* main, step 5: save_cache, "with open(cache_path, 'w') as f": the file is
\* opened for writing, which empties it.
OpenCacheFile ==
    /\ pc = "merged"
    /\ disk' = EmptyDict
    /\ pc' = "writing"
    /\ UNCHANGED <<books, loaded, cache, to_enrich, new_enrichments, next_i, calls,
                   net, warned, output, run, last_run, pure_vars>>

\* main, step 5: save_cache, json.dump and the close of the file.  json.dump
\* followed by the json.load of the next run gives back equal dicts: the
\* keys are strings and the values strings, None, ints and lists of strings.
SaveCache ==
    /\ pc = "writing"
    /\ disk' = cache
    /\ pc' = "saved"
    /\ UNCHANGED <<books, loaded, cache, to_enrich, new_enrichments, next_i, calls,
                   net, warned, output, run, last_run, pure_vars>>

\* main, step 6: build_books_json and the write of books.json
BuildBooksJson ==
    /\ pc \in {"saved", "cached"}
    /\ output' = build_books_json(books, cache, run)
    /\ pc' = "done"
    /\ UNCHANGED <<books, disk, loaded, cache, to_enrich, new_enrichments, next_i,
                   calls, net, warned, run, last_run, pure_vars>>

Next ==
    \/ StartRun
    \/ EnrichByIsbn
    \/ EnrichByWork
    \/ EnrichBySearch
    \/ MergeEnrichments
    \/ OpenCacheFile
    \/ SaveCache
    \/ BuildBooksJson
    \/ Kill

Spec == Init /\ [][Next]_vars

---------------------------------------------------------------------------
(* Calls of the pure functions on bounded inputs                           *)

SubjectUniverse == {
    "Fiction", "Sci-Fi", "Science Fiction, 1950-1999", "Adventure",
    "science fiction", "adventure ", "Memoirs", "Politics",
    "The history and the theory of everything that ever was" }

ExampleSubjects ==
    <<"Fiction", "Sci-Fi", "Science Fiction, 1950-1999", "Adventure">>

\* Six subjects, five of which survive with five different canonical names.
SubjectBlock ==
    <<"History", "Psychology", "Fiction", "Philosophy",
      "Economics", "self help">>

\* The subject lists of the calls: the example list, and up to n free entries
\* with the block inserted at most once.
SubjectLists(n) ==
    {ExampleSubjects} \cup
    UNION {{SubSeq(t, 1, k) \o b \o SubSeq(t, k + 1, Len(t)) :
               k \in 0..Len(t), b \in {<<>>, SubjectBlock}} :
           t \in BoundedSeq(SubjectUniverse, n)}

IsbnUniverse == {
    "9780441013593", "9780340960196", "978-0441-0135",
    "0441013597", "080442957X", "044101359", "97804410135931" }

IsbnLists(n) == BoundedSeq(IsbnUniverse, n)

InitGenres ==
    /\ MainIdle
    /\ subjects \in SubjectLists(MaxSubjects)
    /\ cleaned = <<>>
    /\ isbn_list = <<>>
    /\ best_isbn = None
    /\ query = NoQuery
    /\ response = SearchFailed
    /\ fuzzy = NoCall
    /\ fpc = "input"

CallCleanGenres ==
    /\ fpc = "input"
    /\ cleaned' = clean_genres(subjects)
    /\ fpc' = "returned"
    /\ UNCHANGED <<subjects, isbn_list, best_isbn, query, response, fuzzy>>
    /\ UNCHANGED main_vars

SpecGenres == InitGenres /\ [][CallCleanGenres]_vars

InitIsbn ==
    /\ MainIdle
    /\ isbn_list \in IsbnLists(MaxIsbns)
    /\ best_isbn = None
    /\ subjects = <<>>
    /\ cleaned = <<>>
    /\ query = NoQuery
    /\ response = SearchFailed
    /\ fuzzy = NoCall
    /\ fpc = "input"

CallSelectBestIsbn ==
    /\ fpc = "input"
    /\ best_isbn' = select_best_isbn(isbn_list)
    /\ fpc' = "returned"
    /\ UNCHANGED <<subjects, cleaned, isbn_list, query, response, fuzzy>>
    /\ UNCHANGED main_vars

SpecIsbn == InitIsbn /\ [][CallSelectBestIsbn]_vars

InitFuzzy ==
    /\ MainIdle
    /\ query \in Queries
    /\ response \in SearchResponses(MaxCands)
    /\ fuzzy = NoCall
    /\ subjects = <<>>
    /\ cleaned = <<>>
    /\ isbn_list = <<>>
    /\ best_isbn = None
    /\ fpc = "input"

CallEnrichBook ==
    /\ fpc = "input"
    /\ fuzzy' = enrich_book(query.title, query.author, response, 1)
    /\ fpc' = "returned"
    /\ UNCHANGED <<subjects, cleaned, isbn_list, best_isbn, query, response>>
    /\ UNCHANGED main_vars

SpecFuzzy == InitFuzzy /\ [][CallEnrichBook]_vars

---------------------------------------------------------------------------
(* Claims about the pure functions                                         *)

\* For each position of the argument: the canonical name clean_genres gives
\* the subject, or None if it skips the subject.
CanonicalAt ==
    <<>> \o [k \in 1..Len(subjects) |->
                IF Skipped(subjects[k]) THEN None ELSE Canonical(subjects[k])]

\* For each entry of the result: the first position of the argument whose
\* subject survives with that canonical name, ignoring case (0 if none).
FirstSeenAt(canon) ==
    <<>> \o [p \in 1..Len(cleaned) |->
                LET at == {k \in 1..Len(canon) :
                              canon[k] /= None /\ Lower(canon[k]) = Lower(cleaned[p])}
                IN  IF at = {} THEN 0 ELSE CHOOSE k \in at : \A j \in at : k <= j]

\* C8: clean_genres returns at most 5 entries, no two of them equal when
\* compared case-insensitively, each the canonical name of a surviving input
\* subject, in the order in which those subjects were first seen; the list
\* ["Fiction", "Sci-Fi", "Science Fiction, 1950-1999", "Adventure"] gives
\* ["Science Fiction", "Adventure"].
C8_CleanGenres ==
    fpc = "returned" =>
        LET canon == CanonicalAt
            first == FirstSeenAt(canon)
            lower == <<>> \o [p \in 1..Len(cleaned) |-> Lower(cleaned[p])]
        IN  /\ Len(cleaned) <= 5
            /\ \A p, q \in 1..Len(cleaned) :
                  p < q => lower[p] /= lower[q] /\ first[p] < first[q]
            /\ \A p \in 1..Len(cleaned) :
                  first[p] /= 0 /\ cleaned[p] = canon[first[p]]
            /\ subjects = ExampleSubjects => cleaned = <<"Science Fiction", "Adventure">>

\* C8 witness: a call in which a subject was skipped, a duplicate was dropped
\* and the cap cut the list to 5.
C8_Witness ==
    /\ fpc = "returned"
    /\ Len(cleaned) = 5
    /\ LET canon == CanonicalAt
       IN  /\ \E k \in 1..Len(canon) : canon[k] = None
           /\ \E j, k \in 1..Len(canon) :
                 j < k /\ canon[j] /= None /\ canon[j] = canon[k]
           /\ \E k \in 1..Len(canon) :
                 canon[k] /= None /\ \A p \in 1..5 : cleaned[p] /= canon[k]

Has13 == \E k \in 1..Len(isbn_list) : Len(isbn_list[k]) = 13 /\ IsDigit(isbn_list[k])
Has10 == \E k \in 1..Len(isbn_list) : Len(isbn_list[k]) = 10
InIsbnList(x) == \E k \in 1..Len(isbn_list) : isbn_list[k] = x

\* C9: select_best_isbn returns a 13-digit numeric entry of the list if the
\* list has one; otherwise a 10-character entry of the list if it has one (an
\* ISBN-10, whose check digit may be X); otherwise None.  It never returns a
\* string of another length, nor a string that is not in the list.
C9_SelectBestIsbn ==
    fpc = "returned" =>
        /\ IF Has13
           THEN Len(best_isbn) = 13 /\ IsDigit(best_isbn) /\ InIsbnList(best_isbn)
           ELSE IF Has10
                THEN Len(best_isbn) = 10 /\ InIsbnList(best_isbn)
                ELSE best_isbn = None
        /\ best_isbn /= None => Len(best_isbn) \in {10, 13} /\ InIsbnList(best_isbn)

\* C9 witness: a list that starts with a 13-character non-numeric entry and a
\* 10-character entry and also holds a 13-digit entry, which is returned.
C9_Witness ==
    /\ fpc = "returned"
    /\ Len(isbn_list) = 3
    /\ Len(isbn_list[1]) = 13 /\ ~IsDigit(isbn_list[1])
    /\ Len(isbn_list[2]) = 10
    /\ best_isbn = isbn_list[3]

---------------------------------------------------------------------------
(* Claims about Fuzzy-Search                                               *)

\* The score of every candidate of the response.
ScoreAt ==
    <<>> \o [k \in 1..Len(response.docs) |->
                compute_match_score(query.title, query.author, response.docs[k])]

\* The first position whose score is the maximum of all scores.
FirstMax(score) ==
    CHOOSE k \in 1..Len(score) :
        /\ \A j \in 1..Len(score) : ~FracGT(score[j], score[k])
        /\ \A j \in 1..(k - 1) : FracGT(score[k], score[j])

\* The confidence label of a score, by the documented thresholds.
Bucket(x) ==
    CASE 10 * x.n >= 9 * x.d -> "high"
      [] 10 * x.n >= 7 * x.d /\ 10 * x.n < 9 * x.d -> "medium"
      [] 10 * x.n >= 5 * x.d /\ 10 * x.n < 7 * x.d -> "low"
      [] 10 * x.n < 5 * x.d -> "none"

\* enrich_book returned a dict built from candidate k with the confidence of
\* score x.
BuiltFrom(k, x) ==
    /\ ~IsRaised(fuzzy.out)
    /\ ~Has(fuzzy.out, "error")
    /\ fuzzy.out.official_title = Get(response.docs[k], "title", None)
    /\ fuzzy.out.open_library_work_key = response.docs[k].key
    /\ fuzzy.out.isbn = select_best_isbn(Get(response.docs[k], "isbn", <<>>))
    /\ fuzzy.out.match_confidence = Bucket(x)

\* C7: when Fuzzy-Search receives at least one candidate, the record it
\* returns is built from the first candidate that attains the maximum score,
\* and its confidence is the bucket of that score (>= 0.9 high, >= 0.7
\* medium, >= 0.5 low, else none); one exact match gives 'high'.
C7_FirstMaxBucket ==
    fpc = "returned" /\ response.ok /\ response.docs /= <<>> =>
        LET score == ScoreAt
        IN  /\ BuiltFrom(FirstMax(score), score[FirstMax(score)])
            /\ response.docs = <<DocDune>> => fuzzy.out.match_confidence = "high"

\* C7, for the responses in which some candidate scores above 0: the part of
\* the claim the code does satisfy.
C7_FirstMaxBucket_PositiveScore ==
    fpc = "returned" /\ response.ok /\ response.docs /= <<>> =>
        LET score == ScoreAt
        IN  (\E k \in 1..Len(score) : score[k].n > 0) =>
               /\ BuiltFrom(FirstMax(score), score[FirstMax(score)])
               /\ response.docs = <<DocDune>> => fuzzy.out.match_confidence = "high"

\* A response with a tie for the maximum between the first two of three
\* candidates, resolved to the first.
C7_TieWitness ==
    /\ fpc = "returned" /\ response.ok /\ Len(response.docs) = 3
    /\ LET score == ScoreAt
       IN  /\ FracEQ(score[1], score[2]) /\ FracGT(score[1], score[3])
           /\ response.docs[1] /= response.docs[2]
           /\ BuiltFrom(1, score[1])

---------------------------------------------------------------------------
(* Claims about a build                                                    *)

KeyOf(book) == make_cache_key(book.title, book.author)

\* The position in to_enrich of the book whose strategy ended last (0 if
\* none has), and the positions of all books whose strategy has ended.
LastResolved == IF pc = "crashed" THEN next_i ELSE next_i - 1
Resolved == 1..LastResolved

\* The strategies that ran for the book at position j, in order.
CallsOf(j) ==
    LET cs == SelectSeq(calls, LAMBDA c : c.book = j)
    IN  <<>> \o [k \in 1..Len(cs) |-> cs[k].strategy]

\* The books of the CSV that share a cache key carry the same overrides.
SameOverridesPerKey ==
    \A j, k \in 1..Len(books) :
        KeyOf(books[j]) = KeyOf(books[k]) =>
            /\ books[j].isbn_override = books[k].isbn_override
            /\ books[j].olid_work_override = books[k].olid_work_override

\* C1: once a run has completed, the next run on the same book list, with
\* the cache that run left, selects no book for enrichment and makes no
\* lookup; for every book list (cache keys need not be unique) and every
\* initial cache.
C1_Idempotent ==
    last_run = "completed" => to_enrich = <<>> /\ calls = <<>>

\* C1 for the book lists in which the books sharing a cache key carry the
\* same overrides: the part of the claim the code does satisfy.
C1_Idempotent_SameOverridesPerKey ==
    SameOverridesPerKey /\ last_run = "completed" => to_enrich = <<>> /\ calls = <<>>

\* A second run after a completed one that enriched two books of the same
\* cache key and the same overrides, and one without any book to enrich.
C1_SameOverridesWitness ==
    /\ SameOverridesPerKey /\ last_run = "completed" /\ pc = "done"
    /\ Len(books) = 2 /\ books[1] /= books[2] /\ KeyOf(books[1]) = KeyOf(books[2])
    /\ disk /= EmptyDict /\ disk[KeyOf(books[1])].fetched_at = 1

\* The test of step 4, as the claim words it.
Stale(book, c) ==
    \/ KeyOf(book) \notin DOMAIN c
    \/ book.isbn_override /= Get(c[KeyOf(book)], "isbn_override_used", None)
    \/ book.olid_work_override /= Get(c[KeyOf(book)], "olid_work_override_used", None)

\* C2: a book is selected for enrichment iff its cache key is absent from
\* the cache, or its isbn_override differs from the cached
\* isbn_override_used, or its work-id override differs from the cached
\* olid_work_override_used; so it is not selected when both overrides equal
\* their snapshots and it is selected when an override was added or removed.
C2_NeedsRefresh ==
    pc \in {"enriching", "enriched", "merged", "crashed", "cached"} =>
        /\ to_enrich = SelectSeq(books, LAMBDA b : Stale(b, disk))
        /\ \A k \in 1..Len(books) :
              LET book == books[k]
                  selected == \E j \in 1..Len(to_enrich) : to_enrich[j] = book
              IN  KeyOf(book) \in DOMAIN disk =>
                     LET cached == disk[KeyOf(book)]
                         isbn_used == Get(cached, "isbn_override_used", None)
                         olid_used == Get(cached, "olid_work_override_used", None)
                     IN  /\ (book.isbn_override = isbn_used
                               /\ book.olid_work_override = olid_used) => ~selected
                         /\ (book.isbn_override = None) /= (isbn_used = None) => selected
                         /\ (book.olid_work_override = None) /= (olid_used = None)
                               => selected

\* C2 witness: of two books of a cached key with the cached ISBN override,
\* the one whose work-id override was removed is selected and the one whose
\* overrides equal the snapshot is not.
C2_Witness ==
    /\ pc = "enriching" /\ Len(books) = 2 /\ Len(to_enrich) = 1
    /\ KeyOf(books[1]) \in DOMAIN disk
    /\ LET cached == disk[KeyOf(books[1])]
       IN  /\ KeyOf(books[2]) = KeyOf(books[1])
           /\ Has(cached, "olid_work_override_used")
           /\ cached.olid_work_override_used /= None
           /\ books[1].isbn_override = cached.isbn_override_used
           /\ books[1].olid_work_override = None
           /\ books[2].isbn_override = cached.isbn_override_used
           /\ books[2].olid_work_override = cached.olid_work_override_used
           /\ to_enrich = <<books[1]>>

\* C3: enrich_books is never ended by an exception, whatever the source
\* answers (a transport failure, no candidate, candidates that all score
\* 0): it returns with a record under the cache key of every book, and a
\* failed search gives a record of confidence 'none' with an error string.
C3_NeverFatal ==
    /\ pc /= "crashed"
    /\ pc = "enriched" =>
          \A k \in 1..Len(to_enrich) : KeyOf(to_enrich[k]) \in DOMAIN new_enrichments
    /\ pc \in {"enriching", "enriched"} /\ LastResolved >= 1 /\ Has(net, "search") =>
          LET rec == new_enrichments[KeyOf(to_enrich[LastResolved])]
          IN  ~net.search.ok \/ net.search.docs = <<>> =>
                 rec.match_confidence = "none" /\ Has(rec, "error")

\* The strategy enrich_books has to start for a book.
FirstStrategy(book) ==
    IF book.isbn_override /= None THEN "enrich_by_isbn"
    ELSE IF book.olid_work_override /= None THEN "enrich_by_work"
    ELSE "enrich_book"

\* C4: for every book enrich_books starts exactly one strategy: By-ISBN if
\* the ISBN override is present (also when the work-id override is), else
\* By-Work-Identifier if the work-id override is present, else Fuzzy-Search;
\* the only other lookup for the book is that strategy's fallback to
\* Fuzzy-Search.
C4_OneStrategy ==
    \A j \in 1..Len(to_enrich) :
        IF j \in Resolved
        THEN /\ Len(CallsOf(j)) \in {1, 2}
             /\ CallsOf(j)[1] = FirstStrategy(to_enrich[j])
             /\ Len(CallsOf(j)) = 2 =>
                   CallsOf(j)[1] /= "enrich_book" /\ CallsOf(j)[2] = "enrich_book"
        ELSE CallsOf(j) = <<>>

\* C4 witness: a book with both overrides was resolved by ISBN, which fell
\* back to the search, and then a book with only a work-id override was
\* resolved by work id.
C4_Witness ==
    /\ pc = "enriched" /\ Len(to_enrich) = 2
    /\ to_enrich[1].isbn_override /= None /\ to_enrich[1].olid_work_override /= None
    /\ CallsOf(1) = <<"enrich_by_isbn", "enrich_book">>
    /\ to_enrich[2].isbn_override = None /\ to_enrich[2].olid_work_override /= None
    /\ CallsOf(2) = <<"enrich_by_work">>

\* api/books answered with a record for the ISBN override of the book whose
\* strategy ended last.
IsbnFoundForLast ==
    /\ pc \in {"enriching", "enriched", "crashed"}
    /\ LastResolved >= 1
    /\ Has(net, "api_books")
    /\ net.api_books.ok
    /\ ("ISBN:" \o to_enrich[LastResolved].isbn_override) \in DOMAIN net.api_books.data

\* The record api/books gave carries no ISBN of its own.
NoSourceIsbn ==
    LET book_data == net.api_books.data["ISBN:" \o to_enrich[LastResolved].isbn_override]
        identifiers == Get(book_data, "identifiers", EmptyDict)
    IN  /\ Get(identifiers, "isbn_13", <<>>) = <<>>
        /\ Get(identifiers, "isbn_10", <<>>) = <<>>

\* C5: when the By-ISBN lookup finds a record for the supplied ISBN, the
\* record returned has confidence 'isbn', no error, and an ISBN, which is the
\* supplied one whenever the source record gives none of its own.
C5_ByIsbnFound ==
    IsbnFoundForLast =>
        /\ pc /= "crashed"
        /\ LET rec == new_enrichments[KeyOf(to_enrich[LastResolved])]
           IN  /\ rec.match_confidence = "isbn"
               /\ ~Has(rec, "error")
               /\ rec.isbn /= None
               /\ NoSourceIsbn => rec.isbn = to_enrich[LastResolved].isbn_override

\* C5 witness: the source record has no identifiers and the record returned
\* carries the ISBN override.
C5_Witness ==
    /\ IsbnFoundForLast /\ NoSourceIsbn /\ pc = "enriched"
    /\ new_enrichments[KeyOf(to_enrich[LastResolved])].isbn = Isbn1
    /\ new_enrichments[KeyOf(to_enrich[LastResolved])].match_confidence = "isbn"

\* The strategy of the book that ended last fell back: api/books failed or
\* had no record for the ISBN, or a request of By-Work-Identifier failed.
FellBackForLast ==
    \/ /\ Has(net, "api_books")
       /\ \/ ~net.api_books.ok
          \/ ("ISBN:" \o to_enrich[LastResolved].isbn_override)
                \notin DOMAIN net.api_books.data
    \/ /\ Has(net, "works")
       /\ (~net.works.ok \/ ~net.works.editions_ok)

\* C6: when By-ISBN gets no match or a transport failure, and when
\* By-Work-Identifier gets a transport failure, the outcome for the book is
\* exactly that of Fuzzy-Search for the same title and author on the answer
\* of search.json (a record of confidence none, low, medium or high);
\* Fuzzy-Search itself calls no other strategy.
C6_FallbackChain ==
    pc \in {"enriching", "enriched", "crashed"} /\ LastResolved >= 1 =>
        LET book == to_enrich[LastResolved]
        IN  /\ FellBackForLast =>
                  /\ Has(net, "search")
                  /\ LET fuzzy_out ==
                             enrich_book(book.title, book.author, net.search, run).out
                     IN  IF IsRaised(fuzzy_out) THEN pc = "crashed"
                         ELSE /\ pc /= "crashed"
                              /\ new_enrichments[KeyOf(book)] = fuzzy_out
                              /\ fuzzy_out.match_confidence
                                    \in {"none", "low", "medium", "high"}
            /\ FirstStrategy(book) = "enrich_book" =>
                  /\ DOMAIN net = {"search"}
                  /\ CallsOf(LastResolved) = <<"enrich_book">>

\* C6 witness: api/books had no record for the ISBN override and the record
\* stored is the one the search found, of confidence 'high'.
C6_Witness ==
    /\ pc = "enriched" /\ LastResolved >= 1
    /\ Has(net, "api_books") /\ net.api_books = IsbnNotFound
    /\ Has(net, "search") /\ net.search.ok
    /\ new_enrichments[KeyOf(to_enrich[LastResolved])].match_confidence = "high"
    /\ new_enrichments[KeyOf(to_enrich[LastResolved])].official_title = "Dune"

\* The cache keys a run refreshes, and the last book of to_enrich with a key:
\* the book whose record enrich_books returns under that key.
RefreshedKeys == {KeyOf(to_enrich[k]) : k \in 1..Len(to_enrich)}
ResolvedFor(key) ==
    to_enrich[CHOOSE k \in 1..Len(to_enrich) :
                 /\ KeyOf(to_enrich[k]) = key
                 /\ \A j \in (k + 1)..Len(to_enrich) : KeyOf(to_enrich[j]) /= key]

\* After cache.update: the entries of the keys not refreshed are those of
\* the cache file, and the entry of a refreshed key is the new record with
\* the overrides of the book it was resolved for, and nothing else.
KeyFrame ==
    /\ DOMAIN cache = DOMAIN disk \cup RefreshedKeys
    /\ \A key \in DOMAIN disk \ RefreshedKeys : cache[key] = disk[key]
    /\ \A key \in RefreshedKeys :
          /\ cache[key] = new_enrichments[key]
          /\ cache[key].isbn_override_used = ResolvedFor(key).isbn_override
          /\ cache[key].olid_work_override_used = ResolvedFor(key).olid_work_override
          /\ cache[key].fetched_at = run

\* C10: in a run every book that does not need refresh keeps under its
\* cache key exactly the record cached before the run, the entries of keys
\* not refreshed are untouched, and the entry of a refreshed key is replaced
\* as a whole by the new record annotated with the overrides of the book it
\* was resolved for.
C10_MergeFrame ==
    pc = "merged" =>
        /\ \A k \in 1..Len(books) :
              ~Stale(books[k], disk) => cache[KeyOf(books[k])] = disk[KeyOf(books[k])]
        /\ KeyFrame

\* C10 without its first part: what the code does satisfy, key by key.
C10_MergeFrame_ByKey == pc = "merged" => KeyFrame

\* A merge that added the record of one key and left the entry of another
\* key of the cache file as it was.
C10_ByKeyWitness ==
    /\ pc = "merged"
    /\ RefreshedKeys \ DOMAIN disk /= {}
    /\ DOMAIN disk \ RefreshedKeys /= {}

\* The positions of to_enrich whose resolution ended in an error record.
ErrorAttempts ==
    {j \in 1..Len(to_enrich) :
        \E k \in 1..Len(calls) : calls[k].book = j /\ calls[k].error}

\* No two books of the batch share a cache key.
BatchKeysUnique ==
    \A j, k \in 1..Len(to_enrich) :
        KeyOf(to_enrich[j]) = KeyOf(to_enrich[k]) => j = k

\* After a batch: the warning was printed iff more than half of the
\* enrichments of the batch ended in an error record, and a completed run has
\* written the cache with the record of every key of the batch.
WarnedIffMostFailed ==
    /\ warned <=> 2 * Cardinality(ErrorAttempts) > Len(to_enrich)
    /\ pc = "done" =>
          /\ disk = cache
          /\ \A key \in RefreshedKeys :
                key \in DOMAIN disk /\ disk[key] = new_enrichments[key]

\* C11: in any batch the run prints the error-rate warning exactly when more
\* than half of the enrichments attempted in the batch ended in an error
\* record, and with or without the warning the run goes on to write the
\* cache with everything that was resolved.
C11_ErrorRateWarning ==
    pc \in {"merged", "writing", "saved", "done"} /\ to_enrich /= <<>> =>
        WarnedIffMostFailed

\* C11 for the batches in which no two books share a cache key: the part of
\* the claim the code does satisfy.
C11_ErrorRateWarning_UniqueKeys ==
    pc \in {"merged", "writing", "saved", "done"} /\ to_enrich /= <<>>
        /\ BatchKeysUnique => WarnedIffMostFailed

\* A run that printed the warning for a batch of two books of different
\* keys, both ended in error, and completed with both error records written.
C11_UniqueKeysWitness ==
    /\ pc = "done" /\ warned /\ Len(to_enrich) = 2 /\ BatchKeysUnique
    /\ ErrorAttempts = {1, 2}
    /\ \A key \in RefreshedKeys : Has(disk[key], "error")

\* The enrichment build_books_json joins a book with, and a field of it
\* (None if the cache has no entry for the book or the entry lacks the field).
EnrichmentOf(book) ==
    IF KeyOf(book) \in DOMAIN cache THEN cache[KeyOf(book)] ELSE EmptyDict
FieldOf(enrichment, field) ==
    IF field \in DOMAIN enrichment THEN enrichment[field] ELSE None

\* The entry is the join of the book with the enrichment, by the documented
\* precedence.
JoinedByPrecedence(entry, book, enrichment) ==
    LET official_title == FieldOf(enrichment, "official_title")
        official_author == FieldOf(enrichment, "official_author")
        work_key == FieldOf(enrichment, "open_library_work_key")
    IN  /\ entry.user_title = book.title
        /\ entry.user_author = book.author
        /\ entry.isbn = IF book.isbn_override /= None THEN book.isbn_override
                        ELSE FieldOf(enrichment, "isbn")
        /\ entry.title = IF official_title /= None THEN official_title ELSE book.title
        /\ entry.author = IF official_author /= None THEN official_author
                          ELSE book.author
        /\ (entry.cover_url = None) <=> (entry.isbn = None)
        /\ entry.isbn /= None =>
              entry.cover_url =
                  "https://covers.openlibrary.org/b/isbn/" \o entry.isbn \o "-M.jpg"
        /\ (entry.open_library_url = None) <=> (work_key = None)
        /\ work_key /= None =>
              entry.open_library_url = "https://openlibrary.org" \o work_key

\* C12: build_books_json gives one entry per book, in the order of the book
\* list; the entry's ISBN is the book's isbn_override if present, else the
\* ISBN of the cached enrichment; its title and author are the enrichment's
\* official values if present, else the user's; the cover URL is absent
\* exactly when the resolved ISBN is absent, and the Open Library URL is
\* absent exactly when the enrichment has no work key.
C12_JoinPrecedence ==
    pc = "done" =>
        /\ output.count = Len(books)
        /\ Len(output.books) = Len(books)
        /\ \A k \in 1..Len(books) :
              JoinedByPrecedence(output.books[k], books[k], EnrichmentOf(books[k]))

\* C12 witness: of two books of one cache key the first has an ISBN override
\* that differs from the ISBN of the enrichment and keeps it, while the second
\* gets the ISBN of the enrichment; the enrichment has no official author, so
\* both entries carry the user's author.
C12_Witness ==
    /\ pc = "done" /\ Len(books) = 2
    /\ books[1].isbn_override /= None /\ books[2].isbn_override = None
    /\ KeyOf(books[1]) = KeyOf(books[2])
    /\ LET enrichment == EnrichmentOf(books[1])
       IN  /\ FieldOf(enrichment, "isbn") \notin {None, books[1].isbn_override}
           /\ FieldOf(enrichment, "official_author") = None
           /\ output.books[1].isbn = books[1].isbn_override
           /\ output.books[2].isbn = enrichment.isbn
           /\ output.books[2].author = books[2].author

\* Up to the merge the cache file is as it was loaded, and up to the end of
\* enrich_books so is the cache in memory; a completed step 5 has written
\* the merged cache, after the last book of the batch was resolved; a run
\* without a batch writes nothing.
WrittenOnceAfterMerge ==
    /\ pc \in {"enriching", "enriched", "merged", "cached"} => disk = loaded
    /\ pc \in {"enriching", "enriched", "cached"} => cache = loaded
    /\ pc \in {"saved", "done"} /\ to_enrich /= <<>> =>
          /\ next_i = Len(to_enrich) + 1
          /\ cache = Update(loaded, new_enrichments)
          /\ disk = cache
    /\ pc = "done" /\ to_enrich = <<>> => disk = loaded /\ cache = loaded

\* C13: in a run the cache is loaded once, before any enrichment; the cache
\* file is written at most once, and only after every book needing refresh
\* was resolved and merged in memory; a run ended at any point leaves in the
\* file every entry persisted before the run (it loses at most the new
\* enrichments of the run).
C13_PersistProtocol ==
    /\ WrittenOnceAfterMerge
    /\ pc \in {"crashed", "killed"} => disk = loaded \/ disk = cache

\* C13 with the one other outcome of a run ended from outside, a cache file
\* that reads as empty: what the code does satisfy.
C13_PersistProtocol_OrEmptied ==
    /\ WrittenOnceAfterMerge
    /\ pc \in {"crashed", "killed"} =>
          disk = loaded \/ disk = cache \/ disk = EmptyDict

\* A run ended after the merge and before the write: the file still holds
\* what was loaded, and the record resolved in the run is lost.
C13_OrEmptiedWitness ==
    /\ pc = "killed" /\ loaded /= EmptyDict /\ disk = loaded /\ cache /= loaded
    /\ next_i = Len(to_enrich) + 1

\* The cache c holds an error record under the key of the book at position k
\* of the CSV, resolved under the overrides the book has now.
ErrorRecordOf(k, c) ==
    /\ KeyOf(books[k]) \in DOMAIN c
    /\ Has(c[KeyOf(books[k])], "error")
    /\ FieldOf(c[KeyOf(books[k])], "isbn_override_used") = books[k].isbn_override
    /\ FieldOf(c[KeyOf(books[k])], "olid_work_override_used")
          = books[k].olid_work_override

\* The run leaves the book at position k and its cached record alone, and the
\* book's entry of books.json has confidence 'none'.
StickyFor(k) ==
    LET key == KeyOf(books[k])
    IN  /\ \A j \in 1..Len(to_enrich) : to_enrich[j] /= books[k]
        /\ key \in DOMAIN cache /\ cache[key] = loaded[key]
        /\ pc /= "writing" => key \in DOMAIN disk /\ disk[key] = loaded[key]
        /\ pc = "done" => output.books[k].match_confidence = "none"

\* C14: once the error record of a book's resolution is in the cache a run
\* loads, and the book's overrides are unchanged, the run does not resolve
\* the book again, the error record stays in the cache, and the book's entry
\* of books.json has confidence 'none'.
C14_StickyError ==
    \A k \in 1..Len(books) : ErrorRecordOf(k, loaded) => StickyFor(k)

\* C14 for the book lists in which the books sharing a cache key carry the
\* same overrides, and while no write of the cache file was cut short: the
\* part of the claim the code does satisfy.
C14_StickyError_SameOverridesPerKey ==
    SameOverridesPerKey /\ disk /= EmptyDict =>
        \A k \in 1..Len(books) : ErrorRecordOf(k, loaded) => StickyFor(k)

\* A second run, completed without any lookup, after the run that resolved
\* the first book to an error record: the record written by the first run is
\* still in the file and the entry has confidence 'none'.
C14_SameOverridesWitness ==
    /\ SameOverridesPerKey /\ pc = "done" /\ run = 2 /\ calls = <<>>
    /\ ErrorRecordOf(1, loaded)
    /\ loaded[KeyOf(books[1])].fetched_at = 1
    /\ disk = loaded
    /\ output.books[1].match_confidence = "none"

===========================================================================
